---- MODULE Spec2Model ----
(***************************************************************************)
(* Verification model of two components of the ArceOS exercise tree:       *)
(*   - EarlyAllocator  (modules/bump_allocator/src/lib.rs)                 *)
(*   - sys_mmap        (exercises/sys_map/src/syscall.rs)                  *)
(* The allocator is checked under Spec, the mmap handler under SpecMmap.   *)
(***************************************************************************)
EXTENDS Integers, Sequences, FiniteSets, Bags, TLC

VARIABLES
    \* ---- EarlyAllocator fields (lib.rs:19-25)
    start, size, b_pos, p_pos, count,
    \* ---- EarlyAllocator environment
    inited,           \* init() has been called
    overflow_checks,  \* the build: TRUE = arithmetic overflow panics, FALSE = it wraps
    panicked,         \* an arithmetic overflow panic has halted the kernel
    op,               \* the last allocator operation that ran
    ret,              \* its result
    live,             \* number of byte blocks handed out by alloc and not yet
                      \* passed back to dealloc by their owner
    last_page,        \* result of the latest successful alloc_pages; NoAddr once a
                      \* dealloc has run or dealloc_pages/add_memory moved p_pos
    page_run,         \* how many successful alloc_pages calls (at most 2 counted)
                      \* last_page has been carried through
    \* ---- sys_mmap: the call in progress
    m_pc,             \* where the call is
    m_args,           \* addr, length, prot, flags, fd, offset
    m_ret,            \* the isize returned
    aligned_length, start_addr, file_data, total_read, read_size, saved_pos,
    m_calls,          \* which collaborator functions the call has invoked
    cursor0,          \* the file cursor when the call was entered
    n_reads,          \* how many times the call has invoked read
    map_result,       \* what the call's map_alloc returned ("none" before it)
    \* ---- sys_mmap: the task's address space and the open file
    aspace_lock,      \* the mutex around the address space is held
    areas,            \* the mapped pages
    mem,              \* page -> the bytes written at its start (zero beyond them)
    area_flags,       \* page -> MappingFlags
    file_cursor,      \* the descriptor's read position
    \* ---- concurrent sys_mmap calls
    c_pc,             \* call -> where it is
    c_args,           \* call -> its request
    c_ret,            \* call -> the isize it returned
    c_start,          \* call -> its resolved start address
    c_region,         \* call -> the pages it installed
    lock_holder,      \* address space -> the call holding its mutex, or NoCall
    as_areas,         \* address space -> its mapped pages
    \* ---- the syscall dispatcher
    s_pc,             \* where the trap is
    s_num,            \* the syscall number
    s_args,           \* the six argument registers
    s_handler,        \* the handlers the dispatcher has invoked
    s_ret,            \* the value handle_syscall returned
    \* ---- EarlyAllocator: bookkeeping of its callers
    prev_count,       \* count before the last allocator operation
    bblocks,          \* the bag of byte blocks handed out and not yet freed
    pblocks           \* the bag of page blocks handed out and not yet freed

afields == <<start, size, b_pos, p_pos, count, inited, op, ret, live, last_page,
             page_run>>

avars == <<start, size, b_pos, p_pos, count, inited, overflow_checks, panicked,
           op, ret, live, last_page, page_run>>

mvars == <<m_pc, m_args, m_ret, aligned_length, start_addr, file_data, total_read,
           read_size, saved_pos, m_calls, cursor0, n_reads, map_result, aspace_lock,
           areas, mem, area_flags, file_cursor>>

cvars == <<c_pc, c_args, c_ret, c_start, c_region, lock_holder, as_areas>>

svars == <<s_pc, s_num, s_args, s_handler, s_ret>>

gvars == <<prev_count, bblocks, pblocks>>

vars == <<avars, mvars, cvars, svars, gvars>>

\* the callers' bookkeeping while it is not kept
BlocksQuiet ==
    /\ prev_count = 0
    /\ bblocks = EmptyBag
    /\ pblocks = EmptyBag

\* no call holds the mutex
NoCall == 0

\* the concurrent calls while another component runs
LockQuiet ==
    /\ c_pc = <<>>
    /\ c_args = <<>>
    /\ c_ret = <<>>
    /\ c_start = <<>>
    /\ c_region = <<>>
    /\ lock_holder = <<>>
    /\ as_areas = <<>>

\* the dispatcher while another component runs
SysQuiet ==
    /\ s_pc = "quiet"
    /\ s_num = 0
    /\ s_args = <<>>
    /\ s_handler = {}
    /\ s_ret = 0

(***************************************************************************)
(* Bounds of the model                                                     *)
(***************************************************************************)
\* width of usize in bits
UBITS == 4
\* largest number of outstanding byte blocks
MaxLive == 2

\* the const generic SIZE of EarlyAllocator<SIZE> (the page size)
PAGE_SIZE == 4

USIZE == 2 ^ UBITS
Word == 0 .. (USIZE - 1)
ISIZE_MAX == 2 ^ (UBITS - 1) - 1

\* alignments a core::alloc::Layout can carry, and those passed to alloc_pages
Aligns == {1, 2, 4}
\* sizes passed to alloc: small ones and the largest a Layout can carry
AllocSizes == {0, 1, 2, ISIZE_MAX}
\* num_pages passed to alloc_pages and dealloc_pages
PageCounts == {0, 1, 2, 4}
\* pos passed to dealloc_pages
FreePositions == {0, 3, 4, 7, 8, 11, 12}
\* sizes passed to add_memory
AddSizes == {0, 2, 8}
\* core::alloc::Layout: size, rounded up to align, does not exceed isize::MAX
LayoutValid(sz, align) == ((sz + align - 1) \div align) * align <= ISIZE_MAX
\* extents handed to init
InitStarts == {0, 3, USIZE - 4}
InitSizes == {8}

(***************************************************************************)
(* usize arithmetic                                                        *)
(***************************************************************************)
WAdd(x, y) == (x + y) % USIZE
WSub(x, y) == (x - y + USIZE) % USIZE
WMul(x, y) == (x * y) % USIZE
WNot(x) == (USIZE - 1) - x

RECURSIVE BitAnd(_, _)
BitAnd(x, y) ==
    IF x = 0 \/ y = 0 THEN 0
    ELSE (x % 2) * (y % 2) + 2 * BitAnd(x \div 2, y \div 2)

AddOvf(x, y) == x + y >= USIZE
SubOvf(x, y) == x < y
MulOvf(x, y) == x * y >= USIZE

(***************************************************************************)
(* Results                                                                 *)
(***************************************************************************)
NoResult == [tag |-> "None", val |-> 0]
Ok(v) == [tag |-> "Ok", val |-> v]
NoMemory == [tag |-> "NoMemory", val |-> 0]
Panic == [tag |-> "Panic", val |-> 0]

\* no address: a value outside Word
NoAddr == USIZE

(***************************************************************************)
(* EarlyAllocator::new                                                     *)
(***************************************************************************)
AllocNew ==
    /\ start = 0
    /\ size = 0
    /\ b_pos = 0
    /\ p_pos = 0
    /\ count = 0
    /\ inited = FALSE
    /\ overflow_checks \in BOOLEAN
    /\ panicked = FALSE
    /\ op = "new"
    /\ ret = NoResult
    /\ live = 0
    /\ last_page = NoAddr
    /\ page_run = 0

Halt(name) ==
    /\ panicked' = TRUE
    /\ op' = name
    /\ ret' = Panic
    /\ UNCHANGED <<start, size, b_pos, p_pos, count, inited, overflow_checks,
                   live, last_page, page_run>>

(***************************************************************************)
(* BaseAllocator::init                                                     *)
(***************************************************************************)
\* a second init is accepted and resets the cursors; with overflow checks
\* `start + size` panics after start, size and b_pos have been assigned
InitOp(s, sz) ==
    /\ ~panicked
    /\ start' = s
    /\ size' = sz
    /\ b_pos' = s
    /\ op' = "init"
    /\ IF overflow_checks /\ AddOvf(s, sz)
       THEN /\ panicked' = TRUE
            /\ ret' = Panic
            /\ UNCHANGED <<p_pos, count, inited, live, last_page, page_run>>
       ELSE /\ p_pos' = WAdd(s, sz)
            /\ count' = 0
            /\ inited' = TRUE
            /\ ret' = Ok(0)
            /\ live' = 0
            /\ last_page' = NoAddr
            /\ page_run' = 0
            /\ UNCHANGED panicked
    /\ UNCHANGED overflow_checks

(***************************************************************************)
(* ByteAllocator::alloc                                                    *)
(***************************************************************************)
AllocAlignedPos(b, align) == BitAnd(WSub(WAdd(b, align), 1), WNot(WSub(align, 1)))

AllocEnd(aligned_pos, sz) == WAdd(aligned_pos, sz)

AllocNoSpace(aligned_pos, sz, p) == AllocEnd(aligned_pos, sz) > p

AllocOverflows(b, sz, align) ==
    \/ AddOvf(b, align)
    \/ AddOvf(AllocAlignedPos(b, align), sz)

\* NonNull::new(aligned_pos as *mut u8) is None for the null address, and the
\* unwrap() of line 78 panics on it
NonNullIsNone(aligned_pos) == aligned_pos = 0

AllocOp(sz, align) ==
    /\ inited /\ ~panicked
    /\ live < MaxLive
    /\ IF overflow_checks /\ AllocOverflows(b_pos, sz, align)
       THEN Halt("alloc")
       ELSE LET aligned_pos == AllocAlignedPos(b_pos, align) IN
            /\ op' = "alloc"
            /\ IF AllocNoSpace(aligned_pos, sz, p_pos)
               THEN /\ ret' = NoMemory
                    /\ UNCHANGED <<b_pos, count, live>>
                    /\ UNCHANGED panicked
               ELSE /\ b_pos' = AllocEnd(aligned_pos, sz)
                    /\ count' = count + 1
                    /\ IF NonNullIsNone(aligned_pos)
                       THEN /\ ret' = Panic
                            /\ panicked' = TRUE
                            /\ UNCHANGED live
                       ELSE /\ ret' = Ok(aligned_pos)
                            /\ live' = live + 1
                            /\ UNCHANGED panicked
            /\ UNCHANGED <<start, size, p_pos, inited, overflow_checks,
                           last_page, page_run>>

(***************************************************************************)
(* ByteAllocator::dealloc                                                  *)
(***************************************************************************)
\* count -= 1 without the guard
DeallocCount_Unguarded(c) == WSub(c, 1)

\* if self.count > 0 { self.count -= 1 }
DeallocCount(c) == IF c > 0 THEN c - 1 ELSE c

\* dealloc that never reclaims the byte zone
DeallocBPos_NoReset(c, b, s) == b

\* dealloc that reclaims the byte zone one block too early
DeallocBPos_Early(c, b, s) == IF c <= 1 THEN s ELSE b

DeallocBPos(c, b, s) == IF c = 0 THEN s ELSE b

\* owned = TRUE frees one of the outstanding blocks (whichever: the code ignores
\* _pos and _layout); owned = FALSE is a dealloc of a block that is not outstanding.
DeallocOp(owned) ==
    /\ inited /\ ~panicked
    /\ owned => live > 0
    /\ count' = DeallocCount(count)
    /\ b_pos' = DeallocBPos(count', b_pos, start)
    /\ op' = "dealloc"
    /\ ret' = Ok(0)
    /\ live' = IF owned THEN live - 1 ELSE live
    /\ last_page' = NoAddr
    /\ page_run' = 0
    /\ UNCHANGED <<start, size, p_pos, inited, overflow_checks, panicked>>

(***************************************************************************)
(* PageAllocator::alloc_pages                                              *)
(***************************************************************************)
RequiredBytes(num_pages) == WMul(num_pages, PAGE_SIZE)

PagesNoSpace(required_bytes, p, b) == required_bytes > WSub(p, b)

PagesAlignedPos(p, required_bytes, align_pow2) ==
    BitAnd(WSub(p, required_bytes), WNot(WSub(align_pow2, 1)))

\* alloc_pages that does not check the aligned block against the byte zone
PagesOverlap_Unchecked(aligned_pos, b) == FALSE

PagesOverlap(aligned_pos, b) == aligned_pos < b

\* the overflows of lines 111-123, in the order the code meets them: the product,
\* p_pos - b_pos, and, once the space test has passed, p_pos - required_bytes and
\* align_pow2 - 1 (which goes below zero for align_pow2 = 0)
AllocPagesOverflows(num_pages, align_pow2, p, b) ==
    \/ MulOvf(num_pages, PAGE_SIZE)
    \/ SubOvf(p, b)
    \/ (~PagesNoSpace(RequiredBytes(num_pages), p, b)
          /\ (SubOvf(p, RequiredBytes(num_pages)) \/ SubOvf(align_pow2, 1)))

AllocPagesOp(num_pages, align_pow2) ==
    /\ inited /\ ~panicked
    /\ IF overflow_checks /\ AllocPagesOverflows(num_pages, align_pow2, p_pos, b_pos)
       THEN Halt("alloc_pages")
       ELSE LET required_bytes == RequiredBytes(num_pages)
                aligned_pos == PagesAlignedPos(p_pos, required_bytes, align_pow2)
            IN
            /\ op' = "alloc_pages"
            /\ IF PagesNoSpace(required_bytes, p_pos, b_pos)
                  \/ PagesOverlap(aligned_pos, b_pos)
               THEN /\ ret' = NoMemory
                    /\ UNCHANGED <<p_pos, last_page, page_run>>
               ELSE /\ p_pos' = aligned_pos
                    /\ ret' = Ok(aligned_pos)
                    /\ last_page' = aligned_pos
                    /\ page_run' = IF page_run = 0 THEN 1 ELSE 2
            /\ UNCHANGED <<start, size, b_pos, count, inited, overflow_checks,
                           panicked, live>>

(***************************************************************************)
(* PageAllocator::dealloc_pages                                            *)
(***************************************************************************)
DeallocPagesEnd(pos, num_pages) == WAdd(pos, RequiredBytes(num_pages))

DeallocPagesSkip(pos, num_pages, p) == DeallocPagesEnd(pos, num_pages) > p

DeallocPagesOverflows(pos, num_pages) ==
    \/ MulOvf(num_pages, PAGE_SIZE)
    \/ AddOvf(pos, RequiredBytes(num_pages))

DeallocPagesOp(pos, num_pages) ==
    /\ inited /\ ~panicked
    /\ IF overflow_checks /\ DeallocPagesOverflows(pos, num_pages)
       THEN Halt("dealloc_pages")
       ELSE /\ op' = "dealloc_pages"
            /\ ret' = Ok(0)
            /\ IF DeallocPagesSkip(pos, num_pages, p_pos)
               THEN UNCHANGED <<p_pos, last_page, page_run>>
               ELSE /\ p_pos' = DeallocPagesEnd(pos, num_pages)
                    /\ last_page' = NoAddr
                    /\ page_run' = 0
            /\ UNCHANGED <<start, size, b_pos, count, inited, overflow_checks,
                           panicked, live>>

(***************************************************************************)
(* BaseAllocator::add_memory                                               *)
(***************************************************************************)
AddMemoryRejects(s, sz, self_start, self_size) == WAdd(s, sz) > WAdd(self_start, self_size)

AddMemoryOverflows(s, sz, self_start, self_size) ==
    AddOvf(s, sz) \/ AddOvf(self_start, self_size)

AddMemoryOp(s, sz) ==
    /\ inited /\ ~panicked
    /\ IF overflow_checks /\ AddMemoryOverflows(s, sz, start, size)
       THEN Halt("add_memory")
       ELSE /\ op' = "add_memory"
            /\ IF AddMemoryRejects(s, sz, start, size)
               THEN /\ ret' = NoMemory
                    /\ UNCHANGED <<p_pos, last_page, page_run>>
               ELSE /\ p_pos' = WAdd(s, sz)
                    /\ ret' = Ok(0)
                    /\ last_page' = NoAddr
                    /\ page_run' = 0
            /\ UNCHANGED <<start, size, b_pos, count, inited, overflow_checks,
                           panicked, live>>

(***************************************************************************)
(* The read-only queries of ByteAllocator and PageAllocator                *)
(***************************************************************************)
\* the subtraction of the query would go below zero
QueryOverflows(name) ==
    CASE name = "used_bytes" -> SubOvf(b_pos, start)
      [] name = "available_bytes" -> SubOvf(p_pos, b_pos)
      [] name = "used_pages" -> SubOvf(p_pos, start)
      [] name = "available_pages" -> SubOvf(p_pos, b_pos)
      [] OTHER -> FALSE

\* the value the query returns
QueryValue(name) ==
    CASE name = "total_bytes" -> size
      [] name = "used_bytes" -> WSub(b_pos, start)
      [] name = "available_bytes" -> WSub(p_pos, b_pos)
      [] name = "total_pages" -> size \div PAGE_SIZE
      [] name = "used_pages" -> WSub(p_pos, start) \div PAGE_SIZE
      [] name = "available_pages" -> WSub(p_pos, b_pos) \div PAGE_SIZE

\* &self: the caller gets QueryValue(name) and the allocator, with the record of
\* its last &mut self operation, is left as it is; with overflow checks a
\* subtraction that would go below zero panics
QueryOp(name) ==
    /\ inited /\ ~panicked
    /\ IF overflow_checks /\ QueryOverflows(name)
       THEN Halt(name)
       ELSE UNCHANGED <<start, size, b_pos, p_pos, count, inited, overflow_checks,
                        panicked, op, ret, live, last_page, page_run>>

(***************************************************************************)
(***************************************************************************)
(* sys_mmap (exercises/sys_map/src/syscall.rs)                             *)
(***************************************************************************)
(***************************************************************************)

(***************************************************************************)
(* Bounds of the sys_mmap model                                            *)
(***************************************************************************)
\* width of usize in bits (wide enough for a few 4 KiB pages)
MBITS == 15
\* number of bytes of the open file
MaxFile == 2
\* number of pages of the task's address space
AspacePages == 2

PAGE_SIZE_4K == 4096

MSIZE == 2 ^ MBITS
MAdd(x, y) == (x + y) % MSIZE
MSub(x, y) == (x - y + MSIZE) % MSIZE
MNot(x) == (MSIZE - 1) - x

\* LinuxError codes
EPERM == 1
EIO == 5
EBADF == 9
EAGAIN == 11
ENOMEM == 12
EFAULT == 14
EINVAL == 22

\* MmapProt
PROT_READ == 1
PROT_WRITE == 2
PROT_EXEC == 4
MmapProtAll == PROT_READ + PROT_WRITE + PROT_EXEC

\* MmapFlags
MAP_SHARED == 1
MAP_PRIVATE == 2
MAP_FIXED == 16
MAP_ANONYMOUS == 32
MAP_NORESERVE == 16384
MAP_STACK == 131072
MmapFlagsAll ==
    MAP_SHARED + MAP_PRIVATE + MAP_FIXED + MAP_ANONYMOUS + MAP_NORESERVE + MAP_STACK

\* bitflags from_bits: Some iff no bit outside the declared flags is set
FromBitsOk(bits, all) == bits >= 0 /\ BitAnd(bits, all) = bits

\* bitflags contains
Contains(bits, flag) == BitAnd(bits, flag) = flag

\* impl From<MmapProt> for MappingFlags
MappingFlagsFrom(prot) ==
    {"USER"}
        \cup (IF Contains(prot, PROT_READ) THEN {"READ"} ELSE {})
        \cup (IF Contains(prot, PROT_WRITE) THEN {"WRITE"} ELSE {})
        \cup (IF Contains(prot, PROT_EXEC) THEN {"EXECUTE"} ELSE {})

\* rounding down instead of up
AlignedLength_Down(length) == BitAnd(length, MNot(PAGE_SIZE_4K - 1))

\* (length + PAGE_SIZE_4K - 1) & !(PAGE_SIZE_4K - 1)
AlignedLength(length) ==
    BitAnd(MSub(MAdd(length, PAGE_SIZE_4K), 1), MNot(PAGE_SIZE_4K - 1))

AlignedLengthOverflows(length) == length + PAGE_SIZE_4K >= MSIZE

\* VirtAddr::is_aligned_4k
IsAligned4K(a) == a % PAGE_SIZE_4K = 0

(***************************************************************************)
(* The address space of the current task                                   *)
(***************************************************************************)
ASPACE_BASE == PAGE_SIZE_4K
ASPACE_END == ASPACE_BASE + AspacePages * PAGE_SIZE_4K
Pages == 1 .. AspacePages

PageStart(p) == p * PAGE_SIZE_4K
PageEnd(p) == (p + 1) * PAGE_SIZE_4K

Max2(a, b) == IF a >= b THEN a ELSE b
SetMin(S) == CHOOSE x \in S : \A y \in S : x <= y

RangeFree(ar, a, len) == \A p \in ar : a + len <= PageStart(p) \/ PageEnd(p) <= a

\* aspace.find_free_area(hint, len, [base, base + size)): the lowest free range at or
\* above the hint; the empty set when there is none
FindFreeArea(ar, hint, len) ==
    LET from == Max2(hint, ASPACE_BASE)
        cands == {from} \cup {PageEnd(p) : p \in ar}
        fits == {c \in cands : c >= from /\ RangeFree(ar, c, len) /\ c + len <= ASPACE_END}
    IN IF fits = {} THEN {} ELSE {SetMin(fits)}

\* aspace.map_alloc(start, len, flags, populate = true): its possible outcomes
MapAllocOutcomes(ar, a, len) ==
    IF a < ASPACE_BASE \/ a + len > ASPACE_END \/ ~IsAligned4K(a) \/ ~IsAligned4K(len)
    THEN {"InvalidInput"}
    ELSE IF ~RangeFree(ar, a, len) THEN {"AlreadyExists"}
    ELSE {"Ok", "NoMemory", "BadState"}

PagesOf(a, len) == {p \in Pages : PageStart(p) < a + len /\ a < PageEnd(p)}

\* a translation that knows only out-of-memory
MapErr_AllNoMemory(e) == ENOMEM

\* .map_err(|e| match e { NoMemory => ENOMEM, InvalidInput => EINVAL, _ => EAGAIN })
MapErr(e) ==
    IF e = "NoMemory" THEN ENOMEM
    ELSE IF e = "InvalidInput" THEN EINVAL
    ELSE EAGAIN

\* aspace.write(start, bytes) fails unless the whole range is mapped
AspaceWriteOk(ar, a, n) ==
    /\ a >= ASPACE_BASE /\ a + n <= ASPACE_END
    /\ \A p \in PagesOf(a, Max2(n, 1)) : p \in ar

\* the first k bytes of the mapping at page-aligned address a
MemBytes(a, k) ==
    LET page == mem[a \div PAGE_SIZE_4K] IN
    [i \in 1 .. k |-> IF i <= Len(page) THEN page[i] ELSE 0]

(***************************************************************************)
(* The open file                                                           *)
(***************************************************************************)
\* the descriptor table: one open file
OpenFds == {3}

\* the errors file_like.read may fail with
ReadErrors == {EPERM, EIO}
FileBytes == [i \in 1 .. MaxFile |-> i]

None == [some |-> FALSE, val |-> 0]
Some(v) == [some |-> TRUE, val |-> v]

\* file_like.read(buf): a regular file returns 0 only at end of file and may return
\* fewer bytes than asked for; the empty set stands for no possible byte count
ReadSizes(cursor, space) ==
    LET avail == IF cursor < MaxFile THEN MaxFile - cursor ELSE 0
        most == IF avail < space THEN avail ELSE space
    IN IF most = 0 THEN {0} ELSE 1 .. most

\* api::sys_lseek(fd, off, SEEK_SET): the cursor afterwards (a negative offset fails)
LseekSet(cursor, off) == IF off < 0 THEN cursor ELSE off

(***************************************************************************)
(* Inputs of sys_mmap                                                      *)
(***************************************************************************)
MmapAddrs == {0, ASPACE_BASE, ASPACE_BASE + 1, ASPACE_END}
MmapLengths ==
    {0, 1, MaxFile, MaxFile + 1, PAGE_SIZE_4K - 1, PAGE_SIZE_4K, PAGE_SIZE_4K + 1,
     MSIZE - 1}
MmapProts == {0, PROT_READ + PROT_WRITE, 8}
MmapFlagBits ==
    {MAP_PRIVATE, MAP_PRIVATE + MAP_ANONYMOUS, MAP_PRIVATE + MAP_FIXED,
     MAP_PRIVATE + MAP_FIXED + MAP_ANONYMOUS, 64}
MmapFds == {-1, 3, 4}
MmapOffsets == {0, 1, -1}

NoArgs == [addr |-> 0, length |-> 0, prot |-> 0, flags |-> 0, fd |-> 0, offset |-> 0]

(***************************************************************************)
(* Initial states                                                          *)
(***************************************************************************)
\* the handler's side of the state while only the allocator runs
MmapQuiet ==
    /\ m_pc = "idle"
    /\ m_args = NoArgs
    /\ m_ret = 0
    /\ aligned_length = 0
    /\ start_addr = 0
    /\ file_data = <<>>
    /\ total_read = 0
    /\ read_size = 0
    /\ saved_pos = None
    /\ m_calls = {}
    /\ cursor0 = 0
    /\ n_reads = 0
    /\ map_result = "none"
    /\ aspace_lock = FALSE
    /\ areas = {}
    /\ mem = [p \in Pages |-> <<>>]
    /\ area_flags = [p \in Pages |-> {}]
    /\ file_cursor = 0

\* a task with an address space that is empty or has its first page mapped, and an
\* open file whose cursor is anywhere in the file
MmapInit ==
    /\ m_pc = "idle"
    /\ m_args = NoArgs
    /\ m_ret = 0
    /\ aligned_length = 0
    /\ start_addr = 0
    /\ file_data = <<>>
    /\ total_read = 0
    /\ read_size = 0
    /\ saved_pos = None
    /\ m_calls = {}
    /\ cursor0 = 0
    /\ n_reads = 0
    /\ map_result = "none"
    /\ aspace_lock = FALSE
    /\ areas \in {{}, {1}}
    /\ mem = [p \in Pages |-> <<>>]
    /\ area_flags = [p \in Pages |-> IF p \in areas THEN {"USER", "READ"} ELSE {}]
    /\ file_cursor \in 0 .. MaxFile

InitMmap == AllocNew /\ MmapInit /\ LockQuiet /\ SysQuiet /\ BlocksQuiet

(***************************************************************************)
(* sys_mmap, step by step                                                  *)
(***************************************************************************)
mlocals == <<aligned_length, start_addr, file_data, total_read, read_size, saved_pos>>
aspace == <<areas, mem, area_flags>>

\* syscall_body!: Ok(v) => v, Err(e) => -e.code(); the aspace guard is dropped
Return(v) ==
    /\ m_ret' = v
    /\ m_pc' = "done"
    /\ aspace_lock' = FALSE

\* lines 146-155: parse flags and prot, align the length
MmapEnter(addr, length, prot, flags, fd, offset) ==
    /\ m_pc = "idle" /\ ~panicked
    /\ m_args' = [addr |-> addr, length |-> length, prot |-> prot, flags |-> flags,
                  fd |-> fd, offset |-> offset]
    /\ cursor0' = file_cursor
    /\ n_reads' = 0
    /\ map_result' = "none"
    /\ m_calls' = {}
    /\ UNCHANGED <<afields, overflow_checks, start_addr, file_data, total_read,
                   read_size, saved_pos, aspace, file_cursor>>
    /\ IF ~FromBitsOk(flags, MmapFlagsAll) \/ ~FromBitsOk(prot, MmapProtAll)
       THEN Return(-EINVAL) /\ UNCHANGED <<aligned_length, panicked>>
       ELSE IF overflow_checks /\ AlignedLengthOverflows(length)
       THEN /\ panicked' = TRUE
            /\ m_pc' = "panic"
            /\ UNCHANGED <<m_ret, aligned_length, aspace_lock>>
       ELSE IF AlignedLength(length) = 0
       THEN Return(-EINVAL) /\ UNCHANGED <<aligned_length, panicked>>
       ELSE /\ aligned_length' = AlignedLength(length)
            /\ m_pc' = "lock"
            /\ UNCHANGED <<m_ret, aspace_lock, panicked>>

\* lines 158-159: curr.task_ext().aspace.lock()
MmapLock ==
    /\ m_pc = "lock"
    /\ ~aspace_lock
    /\ aspace_lock' = TRUE
    /\ m_pc' = "resolve"
    /\ UNCHANGED <<afields, map_result, overflow_checks, panicked, m_args, m_ret, mlocals, m_calls,
                   cursor0, n_reads, aspace, file_cursor>>

\* lines 162-178: the start address
MmapResolve ==
    /\ m_pc = "resolve"
    /\ UNCHANGED <<afields, map_result, overflow_checks, panicked, m_args, aligned_length, file_data,
                   total_read, read_size, saved_pos, cursor0, n_reads, aspace,
                   file_cursor>>
    /\ IF Contains(m_args.flags, MAP_FIXED)
       THEN /\ m_calls' = m_calls
            /\ IF ~IsAligned4K(m_args.addr)
               THEN Return(-EINVAL) /\ UNCHANGED start_addr
               ELSE /\ start_addr' = m_args.addr
                    /\ m_pc' = "install"
                    /\ UNCHANGED <<m_ret, aspace_lock>>
       ELSE /\ m_calls' = m_calls \cup {"find_free_area"}
            /\ LET found == FindFreeArea(areas, m_args.addr, aligned_length) IN
               IF found = {}
               THEN Return(-ENOMEM) /\ UNCHANGED start_addr
               ELSE /\ start_addr' \in found
                    /\ m_pc' = "install"
                    /\ UNCHANGED <<m_ret, aspace_lock>>

\* aspace.map_alloc(start_addr, aligned_length, mapping_flags, true) ending in `outcome`
MapAlloc(outcome, mapping_flags) ==
    /\ m_calls' = m_calls \cup {"map_alloc"}
    /\ map_result' = outcome
    /\ IF outcome = "Ok"
       THEN /\ areas' = areas \cup PagesOf(start_addr, aligned_length)
            /\ mem' = [p \in Pages |->
                         IF p \in PagesOf(start_addr, aligned_length) THEN <<>> ELSE mem[p]]
            /\ area_flags' = [p \in Pages |->
                                IF p \in PagesOf(start_addr, aligned_length)
                                THEN mapping_flags ELSE area_flags[p]]
       ELSE UNCHANGED aspace

\* lines 181-207: translate prot, then install the mapping
MmapInstall ==
    /\ m_pc = "install"
    /\ UNCHANGED <<afields, overflow_checks, panicked, m_args, mlocals, cursor0,
                   n_reads, file_cursor>>
    /\ LET mapping_flags == MappingFlagsFrom(m_args.prot) IN
       IF Contains(m_args.flags, MAP_ANONYMOUS)
       THEN \E outcome \in MapAllocOutcomes(areas, start_addr, aligned_length) :
               /\ MapAlloc(outcome, mapping_flags)
               /\ IF outcome = "Ok" THEN Return(start_addr)
                  ELSE Return(-MapErr(outcome))
       ELSE IF m_args.fd < 0 \/ m_args.fd \notin OpenFds
       THEN Return(-EBADF) /\ UNCHANGED <<m_calls, map_result, aspace>>
       ELSE \E outcome \in MapAllocOutcomes(areas, start_addr, aligned_length) :
               /\ MapAlloc(outcome, mapping_flags)
               /\ IF outcome = "Ok"
                  THEN m_pc' = "seek" /\ UNCHANGED <<m_ret, aspace_lock>>
                  ELSE Return(-MapErr(outcome))

\* lines 210-223: the staging buffer; save the cursor and seek when offset != 0
MmapSeek ==
    /\ m_pc = "seek"
    /\ file_data' = [i \in 1 .. m_args.length |-> 0]
    /\ total_read' = 0
    /\ IF m_args.offset # 0
       THEN /\ saved_pos' = Some(file_cursor)
            /\ file_cursor' = LseekSet(file_cursor, m_args.offset)
            /\ m_calls' = m_calls \cup {"lseek"}
       ELSE /\ saved_pos' = None
            /\ UNCHANGED <<file_cursor, m_calls>>
    /\ m_pc' = "read"
    /\ UNCHANGED <<afields, map_result, overflow_checks, panicked, m_args, m_ret, aligned_length,
                   start_addr, read_size, cursor0, n_reads, aspace_lock, aspace>>

\* the loop without its end-of-file break
ReadLoopContinues_NoBreak(total, length, n) == total + n < length

\* while total_read < length, after a read of n bytes
ReadLoopContinues(total, length, n) == n # 0 /\ total + n < length

\* total_read += read_size
ReadTotal(total, n) == total + n

\* lines 226-233: one turn of the read loop
MmapRead ==
    /\ m_pc = "read"
    /\ m_calls' = m_calls \cup {"read"}
    /\ n_reads' = n_reads + 1
    /\ UNCHANGED <<afields, map_result, overflow_checks, panicked, m_args, aligned_length,
                   start_addr, saved_pos, cursor0, aspace>>
    /\ \/ \* file_like.read(buf)? fails: the errno is passed on
          /\ \E e \in ReadErrors : Return(-e)
          /\ UNCHANGED <<file_data, total_read, read_size, file_cursor>>
       \/ \E n \in ReadSizes(file_cursor, m_args.length - total_read) :
             /\ read_size' = n
             /\ file_data' = [i \in 1 .. m_args.length |->
                                IF i > total_read /\ i <= total_read + n
                                THEN FileBytes[file_cursor + (i - total_read)]
                                ELSE file_data[i]]
             /\ file_cursor' = file_cursor + n
             /\ total_read' = IF n = 0 THEN total_read ELSE ReadTotal(total_read, n)
             /\ m_pc' = IF ReadLoopContinues(total_read, m_args.length, n)
                        THEN "read" ELSE "restore"
             /\ UNCHANGED <<m_ret, aspace_lock>>

\* lines 236-238: seek back to the saved position
MmapRestore ==
    /\ m_pc = "restore"
    /\ IF saved_pos.some
       THEN /\ file_cursor' = LseekSet(file_cursor, saved_pos.val)
            /\ m_calls' = m_calls \cup {"lseek"}
       ELSE UNCHANGED <<file_cursor, m_calls>>
    /\ m_pc' = "write"
    /\ UNCHANGED <<afields, map_result, overflow_checks, panicked, m_args, m_ret, mlocals, cursor0,
                   n_reads, aspace_lock, aspace>>

\* lines 241-245: copy the bytes read into the mapping and return its address
MmapWrite ==
    /\ m_pc = "write"
    /\ m_calls' = m_calls \cup {"write"}
    /\ UNCHANGED <<afields, map_result, overflow_checks, panicked, m_args, mlocals, cursor0,
                   n_reads, file_cursor, areas, area_flags>>
    /\ IF AspaceWriteOk(areas, start_addr, total_read)
       THEN /\ mem' = [mem EXCEPT ![start_addr \div PAGE_SIZE_4K] =
                          SubSeq(file_data, 1, total_read)
                              \o SubSeq(@, total_read + 1, Len(@))]
            /\ Return(start_addr)
       ELSE /\ Return(-EFAULT)
            /\ UNCHANGED mem

DoMmapEnter ==
    /\ m_pc = "idle"
    /\ \E addr \in MmapAddrs, length \in MmapLengths, prot \in MmapProts,
          flags \in MmapFlagBits, fd \in MmapFds, offset \in MmapOffsets :
           MmapEnter(addr, length, prot, flags, fd, offset)

NextMmap ==
    \/ DoMmapEnter /\ UNCHANGED <<cvars, svars, gvars>>
    \/ MmapLock /\ UNCHANGED <<cvars, svars, gvars>>
    \/ MmapResolve /\ UNCHANGED <<cvars, svars, gvars>>
    \/ MmapInstall /\ UNCHANGED <<cvars, svars, gvars>>
    \/ MmapSeek /\ UNCHANGED <<cvars, svars, gvars>>
    \/ MmapRead /\ UNCHANGED <<cvars, svars, gvars>>
    \/ MmapRestore /\ UNCHANGED <<cvars, svars, gvars>>
    \/ MmapWrite /\ UNCHANGED <<cvars, svars, gvars>>

SpecMmap == InitMmap /\ [][NextMmap]_vars

(***************************************************************************)
(***************************************************************************)
(* Concurrent sys_mmap calls and the address-space lock                    *)
(* (syscall.rs:157-246; the lock is curr.task_ext().aspace, a Mutex)       *)
(***************************************************************************)
(***************************************************************************)
\* the calls in flight and the address space of the task each one runs in
Calls == {1, 2, 3}
Aspaces == {"A", "B"}
AspaceOf(c) == IF c = 3 THEN "B" ELSE "A"

\* the requests a call may carry: every one maps one page
CallKinds ==
    {[addr |-> ASPACE_BASE, flags |-> MAP_PRIVATE + MAP_ANONYMOUS, fd |-> -1],
     [addr |-> ASPACE_BASE, flags |-> MAP_PRIVATE + MAP_FIXED + MAP_ANONYMOUS, fd |-> -1],
     [addr |-> ASPACE_BASE + 1, flags |-> MAP_PRIVATE + MAP_FIXED + MAP_ANONYMOUS,
      fd |-> -1],
     [addr |-> 0, flags |-> MAP_PRIVATE, fd |-> -1],
     [addr |-> 0, flags |-> MAP_PRIVATE, fd |-> 3]}

NoKind == [addr |-> 0, flags |-> 0, fd |-> 0]

\* the aligned length of every request of CallKinds
CallLength == AlignedLength(1)

\* the part of the call that runs with the MutexGuard alive (lines 159-246)
CriticalPcs == {"resolve", "install", "seek", "read", "restore", "write"}
InCritical(c) == c_pc[c] \in CriticalPcs

\* a lock that never blocks
MutexFree_Always(a) == TRUE

\* Mutex::lock() succeeds only while nobody holds the mutex
MutexFree(a) == lock_holder[a] = NoCall

\* the MutexGuard `aspace` goes out of scope
GuardDrop_Kept(lk, a) == lk
GuardDrop(lk, a) == [lk EXCEPT ![a] = NoCall]

cother == <<afields, overflow_checks, panicked, mvars, svars, gvars>>

\* the closure of syscall_body! returns v: locals die, the guard is dropped
CallReturn(c, v) ==
    /\ c_pc' = [c_pc EXCEPT ![c] = "done"]
    /\ c_ret' = [c_ret EXCEPT ![c] = v]
    /\ c_args' = [c_args EXCEPT ![c] = NoKind]
    /\ lock_holder' = GuardDrop(lock_holder, AspaceOf(c))

CallGoto(c, pc) ==
    /\ c_pc' = [c_pc EXCEPT ![c] = pc]
    /\ UNCHANGED <<c_ret, c_args, lock_holder>>

\* lines 146-155 with valid flags, valid prot and a length of 1
CallEnter(c, kind) ==
    /\ c_pc[c] = "idle"
    /\ c_pc' = [c_pc EXCEPT ![c] = "lock"]
    /\ c_args' = [c_args EXCEPT ![c] = kind]
    /\ UNCHANGED <<c_ret, c_start, c_region, lock_holder, as_areas>>
    /\ UNCHANGED cother

\* line 159: aspace.lock()
CallLock(c) ==
    /\ c_pc[c] = "lock"
    /\ MutexFree(AspaceOf(c))
    /\ lock_holder' = [lock_holder EXCEPT ![AspaceOf(c)] = c]
    /\ c_pc' = [c_pc EXCEPT ![c] = "resolve"]
    /\ UNCHANGED <<c_args, c_ret, c_start, c_region, as_areas>>
    /\ UNCHANGED cother

\* lines 162-178
CallResolve(c) ==
    /\ c_pc[c] = "resolve"
    /\ UNCHANGED <<c_region, as_areas>>
    /\ UNCHANGED cother
    /\ IF Contains(c_args[c].flags, MAP_FIXED)
       THEN IF ~IsAligned4K(c_args[c].addr)
            THEN CallReturn(c, -EINVAL) /\ UNCHANGED c_start
            ELSE /\ c_start' = [c_start EXCEPT ![c] = c_args[c].addr]
                 /\ CallGoto(c, "install")
       ELSE LET found == FindFreeArea(as_areas[AspaceOf(c)], c_args[c].addr, CallLength)
            IN IF found = {}
               THEN CallReturn(c, -ENOMEM) /\ UNCHANGED c_start
               ELSE /\ \E a \in found : c_start' = [c_start EXCEPT ![c] = a]
                    /\ CallGoto(c, "install")

\* lines 184-207
CallInstall(c) ==
    /\ c_pc[c] = "install"
    /\ UNCHANGED c_start
    /\ UNCHANGED cother
    /\ IF ~Contains(c_args[c].flags, MAP_ANONYMOUS)
          /\ (c_args[c].fd < 0 \/ c_args[c].fd \notin OpenFds)
       THEN CallReturn(c, -EBADF) /\ UNCHANGED <<c_region, as_areas>>
       ELSE \E outcome \in MapAllocOutcomes(as_areas[AspaceOf(c)], c_start[c], CallLength) :
               IF outcome = "Ok"
               THEN /\ as_areas' = [as_areas EXCEPT ![AspaceOf(c)] =
                                      @ \cup PagesOf(c_start[c], CallLength)]
                    /\ c_region' = [c_region EXCEPT ![c] = PagesOf(c_start[c], CallLength)]
                    /\ IF Contains(c_args[c].flags, MAP_ANONYMOUS)
                       THEN CallReturn(c, c_start[c])
                       ELSE CallGoto(c, "seek")
               ELSE /\ CallReturn(c, -MapErr(outcome))
                    /\ UNCHANGED <<c_region, as_areas>>

\* lines 210-223: the staging buffer and, for offset != 0, the seek
CallSeek(c) ==
    /\ c_pc[c] = "seek"
    /\ CallGoto(c, "read")
    /\ UNCHANGED <<c_start, c_region, as_areas>>
    /\ UNCHANGED cother

\* lines 226-233: the whole read loop, which ends or fails
CallRead(c) ==
    /\ c_pc[c] = "read"
    /\ UNCHANGED <<c_start, c_region, as_areas>>
    /\ UNCHANGED cother
    /\ \/ \E e \in ReadErrors : CallReturn(c, -e)
       \/ CallGoto(c, "restore")

\* lines 236-238: the seek back, for offset != 0
CallRestore(c) ==
    /\ c_pc[c] = "restore"
    /\ CallGoto(c, "write")
    /\ UNCHANGED <<c_start, c_region, as_areas>>
    /\ UNCHANGED cother

\* lines 241-245: aspace.write, whose result the handler maps to EFAULT or returns
CallWrite(c) ==
    /\ c_pc[c] = "write"
    /\ UNCHANGED <<c_start, c_region, as_areas>>
    /\ UNCHANGED cother
    /\ \/ CallReturn(c, -EFAULT)
       \/ CallReturn(c, c_start[c])

DoCallEnter == \E c \in Calls, kind \in CallKinds : CallEnter(c, kind)
DoCallLock == \E c \in Calls : CallLock(c)
DoCallResolve == \E c \in Calls : CallResolve(c)
DoCallInstall == \E c \in Calls : CallInstall(c)
DoCallSeek == \E c \in Calls : CallSeek(c)
DoCallRead == \E c \in Calls : CallRead(c)
DoCallRestore == \E c \in Calls : CallRestore(c)
DoCallWrite == \E c \in Calls : CallWrite(c)

\* every step a call can take
CallStep(c) ==
    \/ \E kind \in CallKinds : CallEnter(c, kind)
    \/ CallLock(c)
    \/ CallResolve(c)
    \/ CallInstall(c)
    \/ CallSeek(c)
    \/ CallRead(c)
    \/ CallRestore(c)
    \/ CallWrite(c)

NextLock ==
    \/ DoCallEnter
    \/ DoCallLock
    \/ DoCallResolve
    \/ DoCallInstall
    \/ DoCallSeek
    \/ DoCallRead
    \/ DoCallRestore
    \/ DoCallWrite

\* address space A is empty or has its first page mapped
LockInit ==
    /\ c_pc = [c \in Calls |-> "idle"]
    /\ c_args = [c \in Calls |-> NoKind]
    /\ c_ret = [c \in Calls |-> 0]
    /\ c_start = [c \in Calls |-> 0]
    /\ c_region = [c \in Calls |-> {}]
    /\ lock_holder = [a \in Aspaces |-> NoCall]
    /\ as_areas \in {[a \in Aspaces |-> {}], [a \in Aspaces |-> IF a = "A" THEN {1} ELSE {}]}

InitLock == AllocNew /\ MmapQuiet /\ LockInit /\ SysQuiet /\ BlocksQuiet

SpecLock == InitLock /\ [][NextLock]_vars

\* every call is a kernel thread the scheduler keeps running
SpecLockFair == SpecLock /\ \A c \in Calls : WF_vars(CallStep(c))

(***************************************************************************)
(***************************************************************************)
(* The syscall dispatcher (syscall.rs:101-134 and the thin handlers)       *)
(***************************************************************************)
(***************************************************************************)
SYS_IOCTL == 29
SYS_OPENAT == 56
SYS_CLOSE == 57
SYS_READ == 63
SYS_WRITE == 64
SYS_WRITEV == 66
SYS_EXIT == 93
SYS_EXIT_GROUP == 94
SYS_SET_TID_ADDRESS == 96
SYS_MMAP == 222

AT_FDCWD == -100

\* the width of c_int / i32 next to the MBITS of usize
C_INT_BITS == 8

I32SIZE == 2 ^ C_INT_BITS

ENOSYS == 38

\* the match arms of handle_syscall: number |-> the function the arm calls
RouteTable ==
    {<<SYS_IOCTL, "sys_ioctl">>, <<SYS_SET_TID_ADDRESS, "sys_set_tid_address">>,
     <<SYS_OPENAT, "sys_openat">>, <<SYS_CLOSE, "sys_close">>, <<SYS_READ, "sys_read">>,
     <<SYS_WRITE, "sys_write">>, <<SYS_WRITEV, "sys_writev">>,
     <<SYS_EXIT_GROUP, "axtask::exit">>, <<SYS_EXIT, "axtask::exit">>,
     <<SYS_MMAP, "sys_mmap">>}

\* a dispatcher whose last arm calls the ioctl stub
Route_Catchall(num) ==
    IF \E r \in RouteTable : r[1] = num
    THEN (CHOOSE r \in RouteTable : r[1] = num)[2]
    ELSE "sys_ioctl"

\* match syscall_num { ... _ => ENOSYS }
Route(num) ==
    IF \E r \in RouteTable : r[1] = num
    THEN (CHOOSE r \in RouteTable : r[1] = num)[2]
    ELSE "none"

Returns(v) == [kind |-> "ret", val |-> v]
Exits(v) == [kind |-> "exit", val |-> v]
Panics == [kind |-> "panic", val |-> 0]

\* what the arceos_posix_api calls (open, close, read, write, writev) may return
ApiResults == {-EBADF, 0, 1}

\* curr.id().as_u64()
TaskIds == {1, 2}

\* `tf.argN() as _` where the parameter is usize: the register itself
AsUsize(reg) == reg

\* `tf.argN() as _` where the parameter is i32 / c_int: the low bits of the
\* register, read as a two's complement number
AsI32(reg) ==
    LET t == reg % I32SIZE IN IF t >= I32SIZE \div 2 THEN t - I32SIZE ELSE t

\* `tf.argN() as _` where the parameter is isize: the register read as a two's
\* complement number
AsIsize(reg) == IF reg >= MSIZE \div 2 THEN reg - MSIZE ELSE reg

\* the register that holds the (possibly negative) number v
Reg(v) == v % MSIZE

\* fn sys_openat: assert_eq!(dfd, AT_FDCWD), then api::sys_open
SysOpenat(dfd) ==
    IF dfd # AT_FDCWD THEN {Panics} ELSE {Returns(v) : v \in ApiResults}

\* fn sys_close, sys_read, sys_write, sys_writev: the api call's value
SysApi == {Returns(v) : v \in ApiResults}

\* fn sys_set_tid_address
SysSetTidAddress == {Returns(t) : t \in TaskIds}

\* fn sys_ioctl
SysIoctl == {Returns(0)}

\* axtask::exit(status) does not return
SysExit(status) == {Exits(status)}

\* the outcomes of the arm that `num` selects, for every arm but SYS_MMAP
ArmOutcomes(num, args) ==
    LET h == Route(num) IN
    IF h = "sys_ioctl" THEN SysIoctl
    ELSE IF h = "sys_set_tid_address" THEN SysSetTidAddress
    ELSE IF h = "sys_openat" THEN SysOpenat(AsI32(args[1]))
    ELSE IF h \in {"sys_close", "sys_read", "sys_write", "sys_writev"} THEN SysApi
    ELSE IF h = "axtask::exit" THEN SysExit(AsI32(args[1]))
    ELSE {Returns(-ENOSYS)}

\* the syscall numbers and argument registers a user passes
SysNumbers ==
    {r[1] : r \in RouteTable} \cup {0, 28, 30, 65, 92, 95, 97, 221, 223, MSIZE - 1}
SysArgs ==
    {<<a0, a1, a2, a3, a4, a5>> :
        a0 \in {Reg(AT_FDCWD), I32SIZE + AT_FDCWD, 3, 2 * PAGE_SIZE_4K},
        a1 \in {0, 1, MSIZE - PAGE_SIZE_4K, MSIZE - 1},
        a2 \in {PROT_READ + PROT_WRITE, 8},
        a3 \in {MAP_PRIVATE, MAP_PRIVATE + MAP_ANONYMOUS,
                MAP_PRIVATE + MAP_ANONYMOUS + MAP_FIXED, 64},
        a4 \in {Reg(-1), 3},
        a5 \in {0, 1}}

sother == <<afields, panicked, mvars, cvars, gvars>>

\* the trap: a syscall number and six argument registers arrive
SysTrap(num, args) ==
    /\ s_pc = "idle"
    /\ s_pc' = "trap"
    /\ s_num' = num
    /\ s_args' = args
    /\ UNCHANGED <<s_handler, s_ret, overflow_checks>>
    /\ UNCHANGED sother

\* fn handle_syscall, every arm but SYS_MMAP
HandleSyscall ==
    /\ s_pc = "trap"
    /\ Route(s_num) # "sys_mmap"
    /\ s_handler' = IF Route(s_num) = "none" THEN {} ELSE {Route(s_num)}
    /\ \E o \in ArmOutcomes(s_num, s_args) :
          /\ s_pc' = IF o.kind = "ret" THEN "returned"
                     ELSE IF o.kind = "exit" THEN "exited" ELSE "panicked"
          /\ s_ret' = IF o.kind = "ret" THEN o.val ELSE s_ret
    /\ UNCHANGED <<s_num, s_args, overflow_checks>>
    /\ UNCHANGED sother

\* fn handle_syscall, the SYS_MMAP arm: the six registers are cast to the
\* parameter types and sys_mmap starts
SysMmapEnter ==
    /\ s_pc = "trap"
    /\ Route(s_num) = "sys_mmap"
    /\ s_handler' = {"sys_mmap"}
    /\ s_pc' = "sys_mmap"
    /\ MmapEnter(AsUsize(s_args[1]), AsUsize(s_args[2]), AsI32(s_args[3]),
                 AsI32(s_args[4]), AsI32(s_args[5]), AsIsize(s_args[6]))
    /\ UNCHANGED <<s_num, s_args, s_ret, cvars, gvars>>

\* the SYS_MMAP arm: sys_mmap has returned or panicked, and so does handle_syscall
SysMmapReturn ==
    /\ s_pc = "sys_mmap"
    /\ m_pc \in {"done", "panic"}
    /\ s_pc' = IF m_pc = "done" THEN "returned" ELSE "panicked"
    /\ s_ret' = IF m_pc = "done" THEN m_ret ELSE s_ret
    /\ UNCHANGED <<s_num, s_args, s_handler, overflow_checks>>
    /\ UNCHANGED sother

DoSysTrap ==
    /\ s_pc = "idle"
    /\ \E num \in SysNumbers, args \in SysArgs : SysTrap(num, args)

NextSys ==
    \/ DoSysTrap
    \/ HandleSyscall
    \/ SysMmapEnter
    \/ MmapLock /\ UNCHANGED <<cvars, svars, gvars>>
    \/ MmapResolve /\ UNCHANGED <<cvars, svars, gvars>>
    \/ MmapInstall /\ UNCHANGED <<cvars, svars, gvars>>
    \/ MmapSeek /\ UNCHANGED <<cvars, svars, gvars>>
    \/ MmapRead /\ UNCHANGED <<cvars, svars, gvars>>
    \/ MmapRestore /\ UNCHANGED <<cvars, svars, gvars>>
    \/ MmapWrite /\ UNCHANGED <<cvars, svars, gvars>>
    \/ SysMmapReturn

SysInit ==
    /\ s_pc = "idle"
    /\ s_num = 0
    /\ s_args = <<0, 0, 0, 0, 0, 0>>
    /\ s_handler = {}
    /\ s_ret = 0

\* a task with an address space and an open file traps into the kernel
InitSys == AllocNew /\ MmapInit /\ LockQuiet /\ SysInit /\ BlocksQuiet

SpecSys == InitSys /\ [][NextSys]_vars

(***************************************************************************)
(* Specification of the allocator                                          *)
(***************************************************************************)
DoInit ==
    /\ \E s \in InitStarts, sz \in InitSizes : InitOp(s, sz)
    /\ prev_count' = count
    /\ UNCHANGED <<mvars, cvars, svars, bblocks, pblocks>>
DoAlloc ==
    /\ \E sz \in AllocSizes, align \in Aligns :
          LayoutValid(sz, align) /\ AllocOp(sz, align)
    /\ prev_count' = count
    /\ UNCHANGED <<mvars, cvars, svars, bblocks, pblocks>>
DoDealloc ==
    /\ \E owned \in BOOLEAN : DeallocOp(owned)
    /\ prev_count' = count
    /\ UNCHANGED <<mvars, cvars, svars, bblocks, pblocks>>
DoAllocPages ==
    /\ \E n \in PageCounts, align \in Aligns : AllocPagesOp(n, align)
    /\ prev_count' = count
    /\ UNCHANGED <<mvars, cvars, svars, bblocks, pblocks>>
DoDeallocPages ==
    /\ \E pos \in FreePositions, n \in PageCounts : DeallocPagesOp(pos, n)
    /\ prev_count' = count
    /\ UNCHANGED <<mvars, cvars, svars, bblocks, pblocks>>
DoAddMemory ==
    /\ \E s \in InitStarts, sz \in AddSizes : AddMemoryOp(s, sz)
    /\ prev_count' = count
    /\ UNCHANGED <<mvars, cvars, svars, bblocks, pblocks>>

\* a query leaves the count of the last operation in place
DoQuery ==
    /\ \E name \in {"total_bytes", "used_bytes", "available_bytes",
                    "total_pages", "used_pages", "available_pages"} : QueryOp(name)
    /\ UNCHANGED <<mvars, cvars, svars, gvars>>

Next ==
    \/ DoInit
    \/ DoAlloc
    \/ DoDealloc
    \/ DoAllocPages
    \/ DoDeallocPages
    \/ DoAddMemory
    \/ DoQuery

Init == AllocNew /\ MmapQuiet /\ LockQuiet /\ SysQuiet /\ BlocksQuiet

Spec == Init /\ [][Next]_vars

(***************************************************************************)
(* A caller that keeps the blocks it was given and frees only those        *)
(***************************************************************************)
Block(addr, len, pages) == [addr |-> addr, len |-> len, pages |-> pages]

\* the bytes of [addr, addr + len) are shared by two non-empty blocks
Overlap(x, y) ==
    /\ x.len > 0 /\ y.len > 0
    /\ x.addr < y.addr + y.len
    /\ y.addr < x.addr + x.len

\* the single init of the caller
KeepInit ==
    /\ ~inited
    /\ \E s \in InitStarts, sz \in InitSizes : InitOp(s, sz)
    /\ prev_count' = count
    /\ UNCHANGED <<mvars, cvars, svars, bblocks, pblocks>>

\* how many blocks the caller holds
Held == BagCardinality(bblocks) + BagCardinality(pblocks)

\* alloc(layout): the caller keeps the block [ret, ret + layout.size())
KeepAlloc ==
    /\ Held < MaxLive
    /\ \E sz \in AllocSizes, align \in Aligns :
          /\ LayoutValid(sz, align) /\ AllocOp(sz, align)
          /\ bblocks' = IF ret'.tag = "Ok"
                        THEN bblocks (+) SetToBag({Block(ret'.val, sz, 0)})
                        ELSE bblocks
    /\ prev_count' = count
    /\ UNCHANGED <<mvars, cvars, svars, pblocks>>

\* dealloc(pos, layout) of a block the caller holds
FreeAlloc ==
    /\ \E b \in BagToSet(bblocks) :
          /\ DeallocOp(TRUE)
          /\ bblocks' = bblocks (-) SetToBag({b})
    /\ prev_count' = count
    /\ UNCHANGED <<mvars, cvars, svars, pblocks>>

\* alloc_pages(num_pages, align_pow2): the caller keeps
\* [ret, ret + num_pages * PAGE_SIZE)
KeepPages ==
    /\ Held < MaxLive
    /\ \E n \in PageCounts, align \in Aligns :
          /\ AllocPagesOp(n, align)
          /\ pblocks' = IF ret'.tag = "Ok"
                        THEN pblocks (+) SetToBag({Block(ret'.val, n * PAGE_SIZE, n)})
                        ELSE pblocks
    /\ prev_count' = count
    /\ UNCHANGED <<mvars, cvars, svars, bblocks>>

\* dealloc_pages(pos, num_pages) of a block the caller holds
FreePages ==
    /\ \E b \in BagToSet(pblocks) :
          /\ DeallocPagesOp(b.addr, b.pages)
          /\ pblocks' = pblocks (-) SetToBag({b})
    /\ prev_count' = count
    /\ UNCHANGED <<mvars, cvars, svars, bblocks>>

NextBlocks ==
    \/ KeepInit
    \/ KeepAlloc
    \/ FreeAlloc
    \/ KeepPages
    \/ FreePages
    \/ DoAddMemory
    \/ DoQuery

SpecBlocks == Init /\ [][NextBlocks]_vars

(***************************************************************************)
(* Properties of EarlyAllocator                                            *)
(***************************************************************************)
\* round_up as the specification means it, over the unbounded integers
RoundUp(b, align) == ((b + align - 1) \div align) * align

\* C1: after init, start <= b_pos <= p_pos <= start + size holds after every
\* operation, whatever the arguments.
C1_Exclusivity ==
    inited => (start <= b_pos /\ b_pos <= p_pos /\ p_pos <= start + size)

\* C2 (as claimed): after init, count == 0 if and only if b_pos == start.
C2_CountZeroIffAtStart ==
    inited => ((count = 0) <=> (b_pos = start))

\* C2 (amended): after init, count == 0 implies b_pos == start.
C2_CountZeroImpliesAtStart ==
    inited => (count = 0 => b_pos = start)

C2_Witness ==
    inited /\ op = "dealloc" /\ count = 0 /\ b_pos = start /\ live = 0

\* C3: once every block handed out by alloc has been passed to dealloc, count == 0
\* and b_pos == start (in a run that has not panicked); and a dealloc that leaves
\* count > 0 does not move b_pos backward.
C3_ByteZoneReset ==
    /\ [](inited /\ ~panicked /\ live = 0 => count = 0 /\ b_pos = start)
    /\ [][op' = "dealloc" /\ count' > 0 => b_pos' >= b_pos]_vars

C3_Witness ==
    inited /\ op = "dealloc" /\ live = 1 /\ count = 1 /\ b_pos > start

\* C4 (as claimed): a successful alloc_pages returns an address >= b_pos, and
\* strictly below the address returned by the previous successful alloc_pages.
C4_PagesStrictlyDecrease ==
    [][op' = "alloc_pages" /\ ret'.tag = "Ok" =>
          /\ ret'.val >= b_pos
          /\ (last_page # NoAddr => ret'.val < last_page)]_vars

\* C4 (amended): a successful alloc_pages returns an address >= b_pos and not above
\* the address returned by the previous successful alloc_pages; it is strictly
\* below it when the byte count num_pages * PAGE_SIZE of the call is not zero.
C4_PagesNonIncreasing ==
    [][op' = "alloc_pages" /\ ret'.tag = "Ok" =>
          /\ ret'.val >= b_pos
          /\ (last_page # NoAddr => ret'.val <= last_page)
          /\ \A n \in PageCounts, align \in Aligns :
                (/\ last_page # NoAddr
                 /\ RequiredBytes(n) # 0
                 /\ ~PagesNoSpace(RequiredBytes(n), p_pos, b_pos)
                 /\ PagesAlignedPos(p_pos, RequiredBytes(n), align) = ret'.val)
                    => ret'.val < last_page]_vars

C4_Witness ==
    op = "alloc_pages" /\ ret.tag = "Ok" /\ page_run = 2 /\ count > 0

\* C5: alloc(size, align) with round_up(b_pos, align) + size > p_pos returns
\* NoMemory and changes nothing; otherwise it returns round_up(b_pos, align), sets
\* b_pos to that address plus size and increments count.
C5_CollisionRejection ==
    [][op' = "alloc" =>
          \A sz \in AllocSizes, align \in Aligns :
              LayoutValid(sz, align) /\ AllocOp(sz, align) =>
                  LET r == RoundUp(b_pos, align) IN
                  IF r + sz > p_pos
                  THEN ret' = NoMemory /\ UNCHANGED <<b_pos, p_pos, count>>
                  ELSE /\ ret' = Ok(r)
                       /\ b_pos' = r + sz
                       /\ count' = count + 1
                       /\ p_pos' = p_pos]_vars

\* C6: dealloc_pages(pos, num_pages) changes nothing unless pos + num_pages *
\* PAGE_SIZE is exactly p_pos, and never lowers p_pos.
C6_DeallocPagesFrame ==
    [][op' = "dealloc_pages" =>
          \A pos \in FreePositions, n \in PageCounts :
              DeallocPagesOp(pos, n) =>
                  /\ (pos + n * PAGE_SIZE # p_pos =>
                        UNCHANGED <<start, size, b_pos, p_pos, count>>)
                  /\ p_pos' >= p_pos]_vars


(***************************************************************************)
(* Properties of sys_mmap                                                  *)
(***************************************************************************)
Returned == m_pc = "done"
FileBacked == ~Contains(m_args.flags, MAP_ANONYMOUS)
NoMapping == "map_alloc" \notin m_calls /\ "write" \notin m_calls

\* the calls the validation rejects with EINVAL
EinvalCase ==
    \/ m_args.length = 0
    \/ ~FromBitsOk(m_args.flags, MmapFlagsAll)
    \/ ~FromBitsOk(m_args.prot, MmapProtAll)
    \/ (Contains(m_args.flags, MAP_FIXED) /\ ~IsAligned4K(m_args.addr))

\* C7: a call with length 0, with an unrecognized bit in prot or flags, or with
\* MAP_FIXED and an unaligned addr returns -EINVAL; any other non-anonymous call with
\* fd < 0 returns -EBADF; in all these cases map_alloc and write are never invoked.
C7_Validation ==
    m_pc \in {"done", "panic"} =>
        /\ EinvalCase => Returned /\ m_ret = -EINVAL /\ NoMapping
        /\ (~EinvalCase /\ FileBacked /\ m_args.fd < 0) =>
               Returned /\ m_ret = -EBADF /\ NoMapping

\* C8: a file-backed call with offset != 0 that has reached the read step leaves the
\* descriptor's cursor where it was before the call, whatever the reads did and
\* whatever the call returns.
C8_CursorPreserved ==
    (Returned /\ FileBacked /\ m_args.offset # 0 /\ "read" \in m_calls) =>
        file_cursor = cursor0

\* the file's bytes from position `from`, at most k of them
FileFrom(from, k) ==
    LET avail == IF from < MaxFile THEN MaxFile - from ELSE 0
        n == IF avail < k THEN avail ELSE k
    IN [i \in 1 .. n |-> FileBytes[from + i]]

\* C9: after a successful file-backed call with offset >= 0 the bytes written at the
\* resolved address are the file's bytes starting at file position offset, wherever
\* the descriptor's cursor was before the call; with offset = 0 and length = F on a
\* file of F bytes they are the whole file.
C9_FileContent ==
    (Returned /\ FileBacked /\ "write" \in m_calls /\ m_ret = start_addr
        /\ m_args.offset >= 0) =>
        /\ mem[start_addr \div PAGE_SIZE_4K] = FileFrom(m_args.offset, m_args.length)
        /\ (m_args.offset = 0 /\ m_args.length = MaxFile) =>
               MemBytes(start_addr, MaxFile) = FileBytes

AfterLoop == m_pc \in {"restore", "write"} \/ (Returned /\ "write" \in m_calls)

\* C10: the read loop terminates (every turn that stays in it has read at least one
\* byte and total_read stays below length), and it ends with total_read <= length
\* exactly when total_read = length or a read returned 0; once it has ended the call
\* can only go on to return the resolved address, having written exactly the first
\* total_read staged bytes there and nothing beyond them.
C10_ReadLoop ==
    /\ [](m_pc = "read" => total_read < m_args.length)
    /\ [][/\ (m_pc = "read" /\ m_pc' = "read") =>
                 (read_size' > 0 /\ total_read' > total_read)
          /\ (m_pc = "restore") => (m_pc' = "write")
          /\ (m_pc = "write") => (Returned' /\ m_ret' = start_addr)]_vars
    /\ [](AfterLoop =>
            /\ total_read <= m_args.length
            /\ (total_read = m_args.length \/ read_size = 0)
            /\ \A i \in (total_read + 1) .. m_args.length : file_data[i] = 0)
    /\ []((Returned /\ "write" \in m_calls) =>
            /\ m_ret = start_addr
            /\ mem[start_addr \div PAGE_SIZE_4K] = SubSeq(file_data, 1, total_read)
            /\ \A i \in 1 .. m_args.length :
                  i > total_read => MemBytes(start_addr, m_args.length)[i] = 0)

\* a mapping of 3 bytes filled by two partial reads and ended by end of file
C10_Witness ==
    /\ Returned /\ "write" \in m_calls /\ m_ret = start_addr
    /\ m_args.length = MaxFile + 1
    /\ total_read = MaxFile /\ n_reads = MaxFile + 1 /\ read_size = 0

(***************************************************************************)
(* Properties of the address-space lock                                    *)
(***************************************************************************)
SameAspace(c1, c2) == c1 # c2 /\ AspaceOf(c1) = AspaceOf(c2)

\* C11: of two calls on the same address space at most one is anywhere between the
\* free-area search and the write into the mapping, that one holds the mutex, a call
\* takes such a step only while holding it, and the regions two calls install never
\* overlap (in particular two non-fixed calls resolve to different regions).
C11_MutualExclusion ==
    /\ [](\A c1, c2 \in Calls :
            SameAspace(c1, c2) =>
                /\ ~(InCritical(c1) /\ InCritical(c2))
                /\ c_region[c1] \cap c_region[c2] = {})
    /\ [](\A c \in Calls : InCritical(c) => lock_holder[AspaceOf(c)] = c)
    /\ [][\A c \in Calls :
            (InCritical(c) /\ c_pc'[c] # c_pc[c]) =>
                \A d \in Calls : SameAspace(c, d) => ~InCritical(d) /\ ~InCritical(d)']_vars

\* call 1 and call 3 (different address spaces) are both between search and write
\* while call 2 waits for the mutex call 1 holds
C11_Witness ==
    /\ InCritical(1) /\ InCritical(3)
    /\ c_pc[2] = "lock"
    /\ c_region[1] # {} /\ c_region[3] # {}

\* C12: a call that has returned, on whatever exit path, does not hold the mutex, the
\* mutex is only ever held by a call inside its critical part, a call leaves the
\* wait for the mutex only by acquiring it, and under fair scheduling every call
\* waiting for the mutex leaves the wait and returns.
C12_LockReleased ==
    /\ [](\A c \in Calls : c_pc[c] = "done" => lock_holder[AspaceOf(c)] # c)
    /\ [](\A a \in Aspaces :
            lock_holder[a] # NoCall => InCritical(lock_holder[a]) /\ AspaceOf(lock_holder[a]) = a)
    /\ [][\A c \in Calls :
            (c_pc[c] = "lock" /\ c_pc'[c] # "lock") =>
                (InCritical(c)' /\ lock_holder'[AspaceOf(c)] = c)]_vars
    /\ \A c \in Calls : (c_pc[c] = "lock") ~> (c_pc[c] = "done")

\* call 2 holds the mutex of address space A after call 1 left through the read error
C12_Witness ==
    /\ c_pc[1] = "done" /\ c_ret[1] = -EIO
    /\ lock_holder["A"] = 2

(***************************************************************************)
(* Properties of the dispatcher                                            *)
(***************************************************************************)
Handled == s_pc \in {"returned", "exited", "panicked"}

\* C13: no request reaches a panic or assertion failure: every trap ends with a
\* returned value or, for exit and exit_group only, with the task terminated.
C13_NoPanic ==
    Handled =>
        /\ s_pc # "panicked"
        /\ s_pc = "exited" => s_num \in {SYS_EXIT, SYS_EXIT_GROUP}

\* the table of spec 6: number |-> handler
SpecTable ==
    [n \in {29, 56, 57, 63, 64, 66, 93, 94, 96, 222} |->
        CASE n = 29 -> "sys_ioctl" [] n = 56 -> "sys_openat" [] n = 57 -> "sys_close"
          [] n = 63 -> "sys_read" [] n = 64 -> "sys_write" [] n = 66 -> "sys_writev"
          [] n = 93 -> "axtask::exit" [] n = 94 -> "axtask::exit"
          [] n = 96 -> "sys_set_tid_address" [] n = 222 -> "sys_mmap"]

\* C14: a syscall number outside {29, 56, 57, 63, 64, 66, 93, 94, 96, 222} returns
\* -ENOSYS (-38) with no handler invoked; a number inside the set invokes exactly its
\* own handler.
C14_DispatcherFallback ==
    Handled =>
        IF s_num \in DOMAIN SpecTable
        THEN s_handler = {SpecTable[s_num]}
        ELSE s_pc = "returned" /\ s_ret = -38 /\ s_handler = {}

\* an unknown number next to a table entry has been answered with -ENOSYS
C14_Witness == s_pc = "returned" /\ s_num = 223 /\ s_ret = -38 /\ s_handler = {}

(***************************************************************************)
(* Properties of sys_mmap: rounding and installer errors                   *)
(***************************************************************************)
\* the smallest multiple of 4096 that is >= n
RoundUp4K(n) == ((n + 4095) \div 4096) * 4096

PastRounding == m_pc \in {"lock", "resolve", "install", "seek", "read", "restore", "write"}

\* C15: the length find_free_area and map_alloc receive is the smallest multiple of
\* 4096 that is >= the requested length, a successful map_alloc installs exactly that
\* many bytes (4096 for every length in 1..4095), and a request whose rounded length
\* is 0 returns -EINVAL.
C15_LengthAlignment ==
    /\ [](m_pc = "idle" => \A len \in 1 .. 4095 : AlignedLength(len) = 4096)
    /\ []((PastRounding \/ m_calls # {}) =>
            aligned_length = RoundUp4K(m_args.length) /\ aligned_length > 0)
    /\ []((Returned /\ (m_args.length = 0 \/ AlignedLength(m_args.length) = 0)) =>
            m_ret = -EINVAL /\ m_calls = {})
    /\ [][("map_alloc" \in m_calls' /\ "map_alloc" \notin m_calls /\ areas' # areas) =>
            /\ areas \subseteq areas'
            /\ Cardinality(areas' \ areas) * 4096 = RoundUp4K(m_args.length)
            /\ areas' \ areas = PagesOf(start_addr, RoundUp4K(m_args.length))]_vars

\* a request of 4095 bytes has installed one page
C15_Witness ==
    /\ Returned /\ m_args.length = 4095 /\ m_ret = start_addr
    /\ "map_alloc" \in m_calls /\ aligned_length = 4096
    /\ PagesOf(start_addr, aligned_length) \subseteq areas

\* C16: a failed map_alloc makes the call return -ENOMEM for NoMemory, -EINVAL for
\* InvalidInput and -EAGAIN for any other error, for anonymous and file-backed
\* mappings alike, and after the failure the call performs no seek, read or write.
C16_InstallerErrors ==
    /\ [](map_result \notin {"none", "Ok"} =>
            /\ Returned
            /\ map_result = "NoMemory" => m_ret = -12
            /\ map_result = "InvalidInput" => m_ret = -22
            /\ map_result \notin {"NoMemory", "InvalidInput"} => m_ret = -11
            /\ m_calls \cap {"lseek", "read", "write"} = {}
            /\ n_reads = 0 /\ file_cursor = cursor0)
    /\ [][map_result \notin {"none", "Ok"} => UNCHANGED vars]_vars

\* a file-backed call whose map_alloc failed with an error other than the two named
C16_Witness ==
    /\ Returned /\ FileBacked /\ m_args.fd = 3
    /\ map_result \notin {"none", "Ok", "NoMemory", "InvalidInput"}
    /\ m_ret = -11

(***************************************************************************)
(* Properties of EarlyAllocator: add_memory, alloc_pages, dealloc, blocks  *)
(***************************************************************************)
\* C17: add_memory(s, sz) returns NoMemory and changes nothing when s + sz >
\* start + size; otherwise it sets p_pos to s + sz, leaves start, size, b_pos and
\* count unchanged, and the new p_pos is not lower than the old one.
C17_AddMemory ==
    [][op' = "add_memory" =>
          \A s \in InitStarts, sz \in AddSizes :
              AddMemoryOp(s, sz) =>
                  IF s + sz > start + size
                  THEN ret' = NoMemory /\ UNCHANGED <<start, size, b_pos, p_pos, count>>
                  ELSE /\ ret' = Ok(0)
                       /\ p_pos' = s + sz
                       /\ UNCHANGED <<start, size, b_pos, count>>
                       /\ p_pos' >= p_pos]_vars

\* C18: alloc_pages(n, align) returns NoMemory and changes nothing when n * PAGE_SIZE >
\* p_pos - b_pos or when (p_pos - n * PAGE_SIZE) rounded down to align is below b_pos;
\* otherwise the address returned is a multiple of align, the block of n * PAGE_SIZE
\* bytes at it lies inside [b_pos, old p_pos], p_pos becomes that address and b_pos
\* and count are unchanged.
C18_AllocPages ==
    [][op' = "alloc_pages" =>
          \A n \in PageCounts, align \in Aligns :
              AllocPagesOp(n, align) =>
                  LET required == n * PAGE_SIZE
                      aligned == ((p_pos - required) \div align) * align
                  IN IF required > p_pos - b_pos \/ aligned < b_pos
                     THEN /\ ret' = NoMemory
                          /\ UNCHANGED <<start, size, b_pos, p_pos, count>>
                     ELSE /\ ret'.tag = "Ok"
                          /\ ret'.val % align = 0
                          /\ b_pos <= ret'.val
                          /\ ret'.val + required <= p_pos
                          /\ p_pos' = ret'.val
                          /\ UNCHANGED <<start, size, b_pos, count>>]_vars

\* C19: a dealloc made when count is 0 leaves count at 0 and leaves b_pos, p_pos,
\* start and size as they were; count never goes below zero or wraps.
C19_DeallocUnderflowGuard ==
    /\ [](count >= 0 /\ count <= MaxLive)
    /\ [][(op' = "dealloc" /\ prev_count' = 0) =>
            count' = 0 /\ UNCHANGED <<b_pos, p_pos, start, size>>]_vars

\* a dealloc has run at count 0 while a block handed out earlier is still held
C19_Witness == inited /\ op = "dealloc" /\ prev_count = 0 /\ count = 0 /\ live = 1

\* two different held blocks share bytes, or a non-empty block is held twice
Clash(held) ==
    \/ \E x, y \in BagToSet(held) : x # y /\ Overlap(x, y)
    \/ \E x \in BagToSet(held) : CopiesIn(x, held) > 1 /\ x.len > 0

\* C20: when every deallocation names a block that was returned and not yet
\* freed, no two live blocks overlap: the live byte blocks are pairwise
\* disjoint, the live page blocks are pairwise disjoint, and no live byte block
\* overlaps a live page block. A block returned twice while still live counts as
\* two blocks.
C20_NonOverlap ==
    /\ ~Clash(bblocks)
    /\ ~Clash(pblocks)
    /\ \A x \in BagToSet(bblocks), y \in BagToSet(pblocks) : ~Overlap(x, y)


====
